---- MODULE Spec2Model ----
\* Model of sidhulabs.database.conn: the retrying connector
\* (_create_sqlalchemy_engine_with_retry), the managed session
\* (make_managed_session) and the operations of DataBaseConn that use them
\* (execute, insert_from_dict, table_exists).
\*
\* Two specifications share the variables:
\*   SpecConn  the connector alone, from the first line of
\*             _create_sqlalchemy_engine_with_retry to its return or raise;
\*   Spec      a constructed connection object and the calls made on it.
\*
\* What the library does is modelled as follows.  The session keeps a working
\* view of the store (work); commit publishes it (store' = work), rollback and
\* close discard it (work' = store).  Statements fail when the store says so
\* (missing table, existing table, NOT NULL) and may also fail for reasons of
\* the environment where the code has a handler for the failure (pragmas,
\* statements of a block, commit, create_all, create_engine, inspect).
\* session.rollback and session.close are taken to return normally.
EXTENDS Integers, Sequences, FiniteSets, TLC

VARIABLES
    \* ---- connector (conn.py 247-296)
    cpc,          \* position in _create_sqlalchemy_engine_with_retry
    attempts,     \* local variable attempts
    engines,      \* number of engines built by _create_sqlalchemy_engine
    engine,       \* the engine returned (0: none)
    sleeps,       \* the sleep durations so far, in tenths of a second
    warnings,     \* number of logger.warning calls
    connErr,      \* the error raised to the caller of the connector
    firstOk,      \* input: first attempt whose probe (sqlalchemy.inspect) succeeds
    buildFailAt,  \* input: first attempt whose create_engine raises (0: never)
    \* ---- connection object and store
    conn,         \* how the object was made: a subclass, or the tests' fixture
    db_type,      \* self.db_type
    schemas,      \* schemas of the store, besides those the dialect has built in
    store,        \* committed state of the store: [tables, rows]
    work,         \* the session's view of the store inside its transaction
    \* ---- the call in progress
    pc,           \* position of the call in progress ("idle": none)
    op,           \* the call: [name, kw, tkind, tstr, val]
    tref,         \* insert_from_dict: the resolved [schema, name]
    exc,          \* the exception in flight
    orig,         \* the exception as it was first raised in the call
    log,          \* session and engine operations of the call, in order
                  \* ("ms.enter": the try of make_managed_session is entered)
    nstmt,        \* statements run by the body of the block so far
    committed,    \* session.commit() of the block returned
    preOp,        \* store when the call started
    preBlock,     \* store when the managed-session block started
    result,       \* what the caller of the last call got
    sessUnits,    \* units of work (blocks, direct selects) that have used the
                  \* session made at line 96, counted up to MaxUnits
    \* ---- sidhulabs.elastic
    es            \* the last call of the elastic helpers: its arguments, the
                  \* calls it made to the client library, what it gave back

connVars == <<cpc, attempts, engines, engine, sleeps, warnings, connErr, firstOk, buildFailAt>>
dbVars == <<conn, db_type, schemas, store, work, pc, op, tref, exc, orig, log, nstmt, committed,
            preOp, preBlock, result, sessUnits>>
vars == <<connVars, dbVars, es>>

\* ------------------------------------------------------------------ constants

MAX_RETRY_COUNT == 15
POSTGRES == "postgresql"
SQLITE == "sqlite"
MSSQL == "mssql"

\* ------------------------------------------------------------------ bounds

\* rows the tables of the store may hold, all together
MaxRows == 2
\* statements the body of a caller's managed-session block may run
MaxBody == 2
\* units of work counted on one session
MaxUnits == 2
\* length of the strings given to _get_table_name_schema
MaxLen == 4
\* length of the lists and tuples given to the elastic helpers
MaxItems == 3

\* ------------------------------------------------------------------ values

None == <<"None">>
NoExc == [kind |-> "none", at |-> "none", wrapped |-> FALSE]
Raised(kind, at) == [kind |-> kind, at |-> at, wrapped |-> FALSE]
NoConnErr == [src |-> "none", attempt |-> 0, wrapped |-> FALSE]
\* the exception raised by step src of attempt a
ConnRaised(src, a) == [src |-> src, attempt |-> a, wrapped |-> FALSE]

RECURSIVE Pow2(_)
Pow2(n) == IF n = 0 THEN 1 ELSE 2 * Pow2(n - 1)

\* sidhulabs.elastic: no call made yet
NoArg == [type |-> "none", items |-> <<>>]
EsIdle == [fn |-> "none", no_creds |-> FALSE, api_id |-> "-", api_key |-> "-",
           arg |-> NoArg, calls |-> <<>>, ret |-> [kind |-> "none", items |-> <<>>]]

\* ------------------------------------------------------------------
\* The retrying connector
\* ------------------------------------------------------------------

\* line 260: if attempts < MAX_RETRY_COUNT
ShouldRetry_off(a) == a < MAX_RETRY_COUNT - 1
ShouldRetry_more(a) == a <= MAX_RETRY_COUNT
ShouldRetry_always(a) == TRUE
ShouldRetry(a) == a < MAX_RETRY_COUNT

\* line 261: sleep_duration = 0.1 * ((2 ** attempts) - 1), in tenths of a second
SleepDuration_linear(a) == 2 * a - 1
SleepDuration(a) == Pow2(a) - 1

\* line 270: a bare raise re-raises the caught exception itself
Reraise(e) == e

\* lines 254-255: attempts += 1; engine = self._create_sqlalchemy_engine()
\* (outside the try: an exception of create_engine leaves the loop at once)
ConnAttempt ==
    /\ cpc = "loop"
    /\ attempts' = attempts + 1
    /\ IF buildFailAt = attempts + 1
         THEN /\ cpc' = "raised"
              /\ connErr' = ConnRaised("create_engine", attempts + 1)
              /\ UNCHANGED engines
         ELSE /\ cpc' = "probe"
              /\ engines' = engines + 1
              /\ UNCHANGED connErr
    /\ UNCHANGED <<engine, sleeps, warnings, firstOk, buildFailAt, dbVars, es>>

\* lines 256-270: the probe and the except clause
ConnProbe ==
    /\ cpc = "probe"
    /\ IF attempts >= firstOk
         THEN \* lines 257-258: sqlalchemy.inspect(engine); return engine
              /\ cpc' = "returned"
              /\ engine' = engines
              /\ UNCHANGED <<warnings, connErr>>
         ELSE IF ShouldRetry(attempts)
         THEN \* lines 261-267: the warning, with the delay computed
              /\ cpc' = "sleep"
              /\ warnings' = warnings + 1
              /\ UNCHANGED <<engine, connErr>>
         ELSE \* line 270: raise
              /\ cpc' = "raised"
              /\ connErr' = Reraise(ConnRaised("inspect", attempts))
              /\ UNCHANGED <<engine, warnings>>
    /\ UNCHANGED <<attempts, engines, sleeps, firstOk, buildFailAt, dbVars, es>>

\* lines 268-269: time.sleep(sleep_duration); continue
ConnSleep ==
    /\ cpc = "sleep"
    /\ sleeps' = Append(sleeps, SleepDuration(attempts))
    /\ cpc' = "loop"
    /\ UNCHANGED <<attempts, engines, engine, warnings, connErr, firstOk, buildFailAt, dbVars, es>>

ConnDone == cpc \in {"returned", "raised"}

\* ------------------------------------------------------------------
\* Strings, table references, statements
\* ------------------------------------------------------------------

\* A string is a sequence of characters.  The names in use:
T == <<"t">>
M == <<"m">>
N == <<"n">>
S == <<"s">>
Dot == "."

Ref(schema, name) == [schema |-> schema, name |-> name]
NoRef == Ref(None, <<>>)
\* the tables the store may hold rows for
AllRefs == {Ref(None, T), Ref(None, M)}
\* Base.metadata: the tables of the declarative models (test_conn.py 63-67, 81-85)
Declared == {Ref(None, T), Ref(None, M)}
\* the declarative models: [tablename, has_args, schema]
Models == {[tablename |-> T, has_args |-> FALSE, schema |-> None],
           [tablename |-> M, has_args |-> FALSE, schema |-> None]}
ModelOf(name) == CHOOSE m \in Models : m.tablename = name
\* the plain strings given as a table
Strs == {T, M, N, <<"s", Dot, "t">>, <<"s", Dot, "t", Dot, "t">>}
Vals == {"a", "b", "NULL"}
Keywords == {"SELECT", "select", "INSERT", "CREATE", "DROP"}

\* str.split("."): the segments between the dots
RECURSIVE SplitFrom(_, _, _)
SplitFrom(s, i, cur) ==
    IF i > Len(s) THEN <<cur>>
    ELSE IF s[i] = Dot THEN <<cur>> \o SplitFrom(s, i + 1, <<>>)
    ELSE SplitFrom(s, i + 1, Append(cur, s[i]))
Split(s) == SplitFrom(s, 1, <<>>)

\* _get_table_name_schema that splits whenever there is a dot
GetTableNameSchema_first2(table) ==
    LET table_split == Split(table)
    IN IF Len(table_split) < 2 THEN <<None, table>>
       ELSE <<table_split[1], table_split[2]>>

\* lines 327-330: _get_table_name_schema
GetTableNameSchema(table) ==
    LET table_split == Split(table)
    IN IF Len(table_split) # 2 THEN <<None, table>>
       ELSE <<table_split[1], table_split[2]>>

\* Python truth of a schema value: None and "" are false
Truthy(x) == x # None /\ x # <<>>

\* line 127: statement.split()[0].lower()
Lower(kw) ==
    CASE kw = "SELECT" -> "select"
      [] kw = "INSERT" -> "insert"
      [] kw = "CREATE" -> "create"
      [] kw = "DROP" -> "drop"
      [] OTHER -> kw

\* lines 353, 377, 408 and test_conn.py 19: self.db_type
DbTypeOf(c) ==
    CASE c = "PostgresConn" -> "postgresql"
      [] c = "SqlServerConn" -> "mssql"
      [] c = "SqliteConn" -> "sqllite"
      [] c = "DataBaseConn" -> "sqlite"

\* lines 357, 393, 413 and test_conn.py 11: the dialect of the db_uri
DialectOf(c) ==
    CASE c = "PostgresConn" -> POSTGRES
      [] c = "SqlServerConn" -> MSSQL
      [] c = "SqliteConn" -> SQLITE
      [] c = "DataBaseConn" -> SQLITE

\* ------------------------------------------------------------------
\* The store and the session's view of it
\* ------------------------------------------------------------------

EmptyStore == [tables |-> {}, rows |-> [r \in AllRefs |-> <<>>]]

\* whether the store refuses the statement
StmtFails(view, cmd, ref, val) ==
    CASE cmd = "select" -> ref \notin view.tables
      [] cmd = "insert" -> ref \notin view.tables \/ val = "NULL"
      [] cmd = "create" -> ref \in view.tables
      [] cmd = "drop" -> ref \notin view.tables
      [] OTHER -> TRUE

\* the view after the statement; the id of a new row is the next in sequence
StmtApply(view, cmd, ref, val) ==
    CASE cmd = "insert" ->
            [view EXCEPT !.rows[ref] = Append(@, <<Len(@) + 1, val>>)]
      [] cmd = "create" ->
            [view EXCEPT !.tables = @ \cup {ref}, !.rows[ref] = <<>>]
      [] cmd = "drop" ->
            [view EXCEPT !.tables = @ \ {ref}, !.rows[ref] = <<>>]
      [] OTHER -> view

\* the rows a statement returns
StmtRows(view, cmd, ref) ==
    IF cmd = "select" /\ ref \in AllRefs THEN view.rows[ref] ELSE <<>>

\* whether one more row fits the store (the bound of the model)
NRows(view) == Len(view.rows[Ref(None, T)]) + Len(view.rows[Ref(None, M)])
Fits(ref) == ref \in AllRefs => NRows(store) < MaxRows

\* session.commit(): the store after the commit of view w
Commit(w, s) == w
\* session.rollback() and session.close(): the view after it
Rollback(w, s) == s

\* line 241: raise Exception(e) from e
Wrap_bare(e) == e
Wrap(e) == [e EXCEPT !.wrapped = TRUE]

\* what the caller of a call gets
NoResult == [op |-> "none", status |-> "none", exc |-> NoExc, rows |-> <<>>, flag |-> FALSE]
Returned(name, rows, flag) ==
    [op |-> name, status |-> "returned", exc |-> NoExc, rows |-> rows, flag |-> flag]
Failed(name, e) ==
    [op |-> name, status |-> "raised", exc |-> e, rows |-> <<>>, flag |-> FALSE]

\* a call starts: the record of the previous call is dropped
StartCall(o, ref) ==
    /\ op' = o
    /\ tref' = ref
    /\ exc' = NoExc
    /\ orig' = NoExc
    /\ nstmt' = 0
    /\ committed' = FALSE
    /\ preOp' = store
    /\ preBlock' = store

\* ------------------------------------------------------------------
\* make_managed_session (lines 230-243)
\* ------------------------------------------------------------------

\* lines 96-98: self.session is made once, in __init__, and
\* _get_managed_session_maker closes over it: every block and every direct
\* select uses this one session.  n units have used it; now one more does.
UseSession(n) == IF n < MaxUnits THEN n + 1 ELSE n

\* line 234: if self.db_type == SQLITE
UsesPragmas(t) == t = SQLITE

\* lines 233-236: the try is entered and the pragmas are run
MsEnter ==
    /\ pc = "ms_enter"
    /\ preBlock' = store
    /\ sessUnits' = UseSession(sessUnits)
    /\ IF UsesPragmas(db_type)
         THEN \E o \in {"ok", "fail1", "fail2"} :
                /\ log' = log \o
                     (IF o = "fail1" THEN <<"ms.enter", "s.pragma_fk">>
                      ELSE <<"ms.enter", "s.pragma_fk", "s.pragma_csl">>)
                /\ IF o = "ok"
                     THEN pc' = "ms_body" /\ UNCHANGED <<exc, orig>>
                     ELSE pc' = "ms_except" /\ exc' = Raised("DBError", "pragma") /\ orig' = Raised("DBError", "pragma")
         ELSE pc' = "ms_body" /\ log' = Append(log, "ms.enter") /\ UNCHANGED <<exc, orig>>
    /\ UNCHANGED <<conn, db_type, schemas, store, work, op, tref, nstmt, committed,
                   preOp, result, connVars, es>>

\* the statement of the call in progress: <<command, table, value>>
OpStmt ==
    IF op.name = "execute" THEN <<Lower(op.kw), Ref(None, op.tstr), op.val>>
    ELSE <<"insert", tref, op.val>>

\* line 133 (execute) and line 182 (insert_from_dict): the body is one db.execute
MsBodyCall ==
    /\ pc = "ms_body"
    /\ op.name \in {"execute", "insert_from_dict"}
    /\ \E envfail \in BOOLEAN :
         LET st == OpStmt
         IN IF envfail \/ StmtFails(work, st[1], st[2], st[3])
              THEN /\ exc' = Raised("DBError", "body") /\ orig' = Raised("DBError", "body")
                   /\ pc' = "ms_except"
                   /\ UNCHANGED work
              ELSE /\ work' = StmtApply(work, st[1], st[2], st[3])
                   /\ pc' = "ms_commit"
                   /\ UNCHANGED <<exc, orig>>
    /\ log' = Append(log, "s.execute")
    /\ nstmt' = nstmt + 1
    /\ UNCHANGED <<conn, db_type, schemas, store, op, tref, committed, preOp, preBlock,
                   result, connVars, sessUnits, es>>

\* a caller's own block (with db.ManagedSessionMaker() as s): one s.execute
BlockStmt ==
    /\ pc = "ms_body"
    /\ op.name = "block"
    /\ nstmt < MaxBody
    /\ \E cmd \in {"insert", "create", "drop"}, ref \in AllRefs, val \in Vals, envfail \in BOOLEAN :
         /\ cmd = "insert" => NRows(work) < MaxRows
         /\ IF envfail \/ StmtFails(work, cmd, ref, val)
              THEN /\ exc' = Raised("DBError", "body") /\ orig' = Raised("DBError", "body")
                   /\ pc' = "ms_except"
                   /\ UNCHANGED work
              ELSE /\ work' = StmtApply(work, cmd, ref, val)
                   /\ UNCHANGED <<pc, exc, orig>>
    /\ log' = Append(log, "s.execute")
    /\ nstmt' = nstmt + 1
    /\ UNCHANGED <<conn, db_type, schemas, store, op, tref, committed, preOp, preBlock,
                   result, connVars, sessUnits, es>>

\* the caller's block ends normally: the generator resumes after the yield
BlockEnd ==
    /\ pc = "ms_body"
    /\ op.name = "block"
    /\ pc' = "ms_commit"
    /\ UNCHANGED <<conn, db_type, schemas, store, work, op, tref, exc, orig, log, nstmt,
                   committed, preOp, preBlock, result, connVars, sessUnits, es>>

\* the caller's block raises: the exception is thrown into the generator at the yield
BlockRaise ==
    /\ pc = "ms_body"
    /\ op.name = "block"
    /\ exc' = Raised("BodyError", "body") /\ orig' = Raised("BodyError", "body")
    /\ pc' = "ms_except"
    /\ UNCHANGED <<conn, db_type, schemas, store, work, op, tref, log, nstmt,
                   committed, preOp, preBlock, result, connVars, sessUnits, es>>

\* MsCommit with the commit placed after the try: its failure is not handled
MsCommit_outside_try ==
    /\ pc = "ms_commit"
    /\ log' = Append(log, "s.commit")
    /\ \E ok \in BOOLEAN :
         IF ok
           THEN /\ store' = Commit(work, store)
                /\ committed' = TRUE
                /\ UNCHANGED <<exc, orig>>
           ELSE /\ exc' = Raised("DBError", "commit") /\ orig' = Raised("DBError", "commit")
                /\ UNCHANGED <<store, committed>>
    /\ pc' = "ms_finally"
    /\ UNCHANGED <<conn, db_type, schemas, work, op, tref, nstmt, preOp, preBlock,
                   result, connVars, sessUnits, es>>

\* MsCommit with the commit left out
MsCommit_skipped ==
    /\ pc = "ms_commit"
    /\ pc' = "ms_finally"
    /\ UNCHANGED <<conn, db_type, schemas, store, work, op, tref, exc, orig, log, nstmt,
                   committed, preOp, preBlock, result, connVars, sessUnits, es>>

\* line 238: session.commit()
MsCommit ==
    /\ pc = "ms_commit"
    /\ log' = Append(log, "s.commit")
    /\ \E ok \in BOOLEAN :
         IF ok
           THEN /\ store' = Commit(work, store)
                /\ committed' = TRUE
                /\ pc' = "ms_finally"
                /\ UNCHANGED <<exc, orig>>
           ELSE /\ exc' = Raised("DBError", "commit") /\ orig' = Raised("DBError", "commit")
                /\ pc' = "ms_except"
                /\ UNCHANGED <<store, committed>>
    /\ UNCHANGED <<conn, db_type, schemas, work, op, tref, nstmt, preOp, preBlock,
                   result, connVars, sessUnits, es>>

\* MsExcept without a finally clause: the exception leaves before the close
MsExcept_no_finally ==
    /\ pc = "ms_except"
    /\ log' = Append(log, "s.rollback")
    /\ work' = Rollback(work, store)
    /\ exc' = Wrap(exc)
    /\ pc' = "idle"
    /\ result' = Failed(op.name, exc')
    /\ UNCHANGED <<conn, db_type, schemas, store, op, tref, orig, nstmt, committed, preOp,
                   preBlock, connVars, sessUnits, es>>

\* MsExcept that commits where it should roll back
MsExcept_commits ==
    /\ pc = "ms_except"
    /\ log' = Append(log, "s.rollback")
    /\ store' = Commit(work, store)
    /\ exc' = Wrap(exc)
    /\ pc' = "ms_finally"
    /\ UNCHANGED <<conn, db_type, schemas, work, op, tref, orig, nstmt, committed, preOp,
                   preBlock, result, connVars, sessUnits, es>>

\* lines 239-241: except Exception as e: session.rollback(); raise Exception(e) from e
MsExcept ==
    /\ pc = "ms_except"
    /\ log' = Append(log, "s.rollback")
    /\ work' = Rollback(work, store)
    /\ exc' = Wrap(exc)
    /\ pc' = "ms_finally"
    /\ UNCHANGED <<conn, db_type, schemas, store, op, tref, orig, nstmt, committed, preOp,
                   preBlock, result, connVars, sessUnits, es>>

\* lines 242-243: finally: session.close(); then the exception in flight, if
\* any, leaves the with statement and the call
MsFinally ==
    /\ pc = "ms_finally"
    /\ log' = Append(log, "s.close")
    /\ work' = store
    /\ IF exc = NoExc
         THEN pc' = "ms_exit" /\ UNCHANGED result
         ELSE pc' = "idle" /\ result' = Failed(op.name, exc)
    /\ UNCHANGED <<conn, db_type, schemas, store, op, tref, exc, orig, nstmt, committed,
                   preOp, preBlock, connVars, sessUnits, es>>

\* after the with statement: line 135 (return res), line 184 (logger.info)
MsExit ==
    /\ pc = "ms_exit"
    /\ pc' = "idle"
    /\ result' = Returned(op.name, <<>>, FALSE)
    /\ UNCHANGED <<conn, db_type, schemas, store, work, op, tref, exc, orig, log, nstmt,
                   committed, preOp, preBlock, connVars, sessUnits, es>>

\* ------------------------------------------------------------------
\* execute, table_exists, insert_from_dict
\* ------------------------------------------------------------------

Call(name, kw, tkind, tstr, val) ==
    [name |-> name, kw |-> kw, tkind |-> tkind, tstr |-> tstr, val |-> val]

\* execute that runs every statement in a managed session
IsSelect_none(command) == FALSE

\* line 129: if command == "select"
IsSelect(command) == command = "select"

\* lines 127-135: execute(statement).  A select runs on self.session directly;
\* anything else runs in a managed session.
Execute ==
    /\ pc = "idle"
    /\ \E kw \in Keywords, name \in {T, M, N}, val \in Vals \cup {"-"} :
         LET command == Lower(kw)
             ref == Ref(None, name)
         IN /\ command \in {"create", "drop"} => ref \in AllRefs
            /\ command = "insert" => Fits(ref)
            /\ val # "-" <=> command = "insert"
            /\ StartCall(Call("execute", kw, "na", name, val), NoRef)
            /\ IF IsSelect(command)
                 THEN \* line 130: self.session.execute(statement)
                      /\ log' = <<"s.execute">>
                      /\ sessUnits' = UseSession(sessUnits)
                      /\ pc' = "idle"
                      /\ result' =
                           IF StmtFails(work, command, ref, val)
                             THEN Failed("execute", Raised("DBError", "select"))
                             ELSE Returned("execute", StmtRows(work, command, ref), FALSE)
                 ELSE /\ log' = <<>>
                      /\ pc' = "ms_enter"
                      /\ UNCHANGED <<result, sessUnits>>
    /\ UNCHANGED <<conn, db_type, schemas, store, work, connVars, es>>

\* line 209: table in sqlalchemy.inspect(self.engine).get_table_names(schema=schema)
TableExistsIn(s, name, schema) == Ref(schema, name) \in s.tables

\* lines 186-209: table_exists(table, schema)
TableExists ==
    /\ pc = "idle"
    /\ \E name \in {T, M, N}, schema \in {None, S} :
         /\ StartCall(Call("table_exists", "-", "na", name, "-"), Ref(schema, name))
         /\ log' = <<"e.get_table_names">>
         /\ result' = Returned("table_exists", <<>>, TableExistsIn(store, name, schema))
    /\ pc' = "idle"
    /\ UNCHANGED <<conn, db_type, schemas, store, work, connVars, sessUnits, es>>

\* a caller opens its own block: with db.ManagedSessionMaker() as s
Block ==
    /\ pc = "idle"
    /\ StartCall(Call("block", "-", "na", <<>>, "-"), NoRef)
    /\ log' = <<>>
    /\ pc' = "ms_enter"
    /\ UNCHANGED <<conn, db_type, schemas, store, work, result, connVars, sessUnits, es>>

\* Resolve that takes a model's table for the other declared one
Resolve_other(tkind, tstr) ==
    IF tkind = "model"
      THEN Ref(None, IF tstr = T THEN M ELSE T)
      ELSE LET r == GetTableNameSchema(tstr) IN Ref(r[1], r[2])

\* lines 163-167: the schema and the table name of the target
Resolve(tkind, tstr) ==
    IF tkind = "model"
      THEN LET m == ModelOf(tstr)
           IN Ref(IF m.has_args THEN m.schema ELSE None, m.tablename)
      ELSE LET r == GetTableNameSchema(tstr) IN Ref(r[1], r[2])

\* lines 163-169: insert_from_dict(table, data) resolves its target
InsertFromDict ==
    /\ pc = "idle"
    /\ \E tkind \in {"str", "model"}, tstr \in Strs, val \in Vals :
         /\ tkind = "model" => tstr \in {m.tablename : m \in Models}
         /\ Fits(Resolve(tkind, tstr))
         /\ StartCall(Call("insert_from_dict", "-", tkind, tstr, val), Resolve(tkind, tstr))
         /\ log' = <<>>
         /\ pc' = IF Truthy(Resolve(tkind, tstr).schema) THEN "ins_schema" ELSE "ins_table"
    /\ UNCHANGED <<conn, db_type, schemas, store, work, result, connVars, sessUnits, es>>

\* line 318: if self.db_type != SQLITE
SchemaSupported(t) == t # SQLITE

\* lines 170, 313-320: _create_schema(schema).  The sqlite dialect has no
\* CREATE SCHEMA: the statement raises there.
InsCreateSchema ==
    /\ pc = "ins_schema"
    /\ IF SchemaSupported(db_type)
         THEN IF tref.schema \notin schemas
                THEN IF DialectOf(conn) = SQLITE
                       THEN /\ log' = log \o <<"e.get_schema_names", "e.create_schema">>
                            /\ exc' = Raised("DBError", "create_schema") /\ orig' = Raised("DBError", "create_schema")
                            /\ result' = Failed(op.name, exc')
                            /\ pc' = "idle"
                            /\ UNCHANGED schemas
                       ELSE /\ log' = log \o <<"e.get_schema_names", "e.create_schema">>
                            /\ schemas' = schemas \cup {tref.schema}
                            /\ pc' = "ins_table"
                            /\ UNCHANGED <<exc, orig, result>>
                ELSE /\ log' = Append(log, "e.get_schema_names")
                     /\ pc' = "ins_table"
                     /\ UNCHANGED <<schemas, exc, orig, result>>
         ELSE /\ pc' = "ins_table"
              /\ UNCHANGED <<log, schemas, exc, orig, result>>
    /\ UNCHANGED <<conn, db_type, store, work, op, tref, nstmt, committed, preOp,
                   preBlock, connVars, sessUnits, es>>

\* Base.metadata.create_all: the declared tables that are missing are created
CreateAll(s) ==
    [s EXCEPT !.tables = @ \cup Declared]

\* create_all that fails stops at the failing table: the tables created
\* before it stay (DDL is not undone on an autocommitting connection)
CreateSome(s, created) ==
    [s EXCEPT !.tables = @ \cup created]

\* what Base.metadata.create_all raises: a ProgrammingError whose text has
\* "schema name" in it, or has not
CreateAllError(o) ==
    Raised("ProgrammingError", IF o = "schema_name" THEN "create_all_schema_name" ELSE "create_all")

\* line 306: if "schema name" in str(e)
IsSchemaNameError_never(e) == FALSE
IsSchemaNameError(e) == e.at = "create_all_schema_name"

\* lines 172-176 and 298-309: the table is looked up; a missing table is
\* created for a declarative model (_create_tables), an error otherwise
InsCheckTable ==
    /\ pc = "ins_table"
    /\ IF TableExistsIn(store, tref.name, tref.schema)
         THEN /\ log' = Append(log, "e.get_table_names")
              /\ pc' = "ins_reflect"
              /\ UNCHANGED <<store, work, exc, orig, result>>
         ELSE IF op.tkind = "model"
         THEN \E o \in {"ok", "schema_name", "other"} :
                IF o = "ok"
                  THEN /\ log' = log \o <<"e.get_table_names", "e.create_all">>
                       /\ store' = CreateAll(store)
                       /\ work' = CreateAll(store)
                       /\ pc' = "ins_reflect"
                       /\ UNCHANGED <<exc, orig, result>>
                  ELSE \E created \in SUBSET (Declared \ store.tables) :
                       /\ created # Declared \ store.tables
                       /\ store' = CreateSome(store, created)
                       /\ work' = CreateSome(store, created)
                       /\ IF IsSchemaNameError(CreateAllError(o))
                            THEN \* lines 306-307: logger.warning, and on
                                 /\ log' = log \o <<"e.get_table_names", "e.create_all", "w.schema_name">>
                                 /\ pc' = "ins_reflect"
                                 /\ UNCHANGED <<exc, orig, result>>
                            ELSE \* line 309: raise e from e
                                 /\ log' = log \o <<"e.get_table_names", "e.create_all">>
                                 /\ exc' = CreateAllError(o) /\ orig' = CreateAllError(o)
                                 /\ result' = Failed(op.name, exc')
                                 /\ pc' = "idle"
         ELSE \* line 176: raise ValueError
              /\ log' = Append(log, "e.get_table_names")
              /\ exc' = Raised("ValueError", "table_exists") /\ orig' = Raised("ValueError", "table_exists")
              /\ result' = Failed(op.name, exc')
              /\ pc' = "idle"
              /\ UNCHANGED <<store, work>>
    /\ UNCHANGED <<conn, db_type, schemas, op, tref, nstmt, committed, preOp,
                   preBlock, connVars, sessUnits, es>>

\* lines 178-179: the table is reflected from the store and the insert is built
InsReflect ==
    /\ pc = "ins_reflect"
    /\ log' = Append(log, "e.reflect")
    /\ IF tref \in store.tables
         THEN pc' = "ms_enter" /\ UNCHANGED <<exc, orig, result>>
         ELSE /\ exc' = Raised("NoSuchTableError", "reflect") /\ orig' = Raised("NoSuchTableError", "reflect")
              /\ result' = Failed(op.name, exc')
              /\ pc' = "idle"
    /\ UNCHANGED <<conn, db_type, schemas, store, work, op, tref, nstmt, committed,
                   preOp, preBlock, connVars, sessUnits, es>>

\* ------------------------------------------------------------------
\* Specifications
\* ------------------------------------------------------------------

Conns == {"PostgresConn", "SqlServerConn", "SqliteConn", "DataBaseConn"}

InitObject ==
    /\ conn \in Conns
    /\ db_type = DbTypeOf(conn)
    /\ schemas = {}
    /\ store = EmptyStore
    /\ work = EmptyStore
    /\ pc = "idle"
    /\ op = Call("none", "-", "na", <<>>, "-")
    /\ tref = NoRef
    /\ exc = NoExc
    /\ orig = NoExc
    /\ log = <<>>
    /\ nstmt = 0
    /\ committed = FALSE
    /\ preOp = EmptyStore
    /\ preBlock = EmptyStore
    /\ result = NoResult
    /\ sessUnits = 0
    /\ es = EsIdle

\* lines 93-98: the connector has returned the engine and the session is made
Init ==
    /\ cpc = "returned"
    /\ attempts = 1
    /\ engines = 1
    /\ engine = 1
    /\ sleeps = <<>>
    /\ warnings = 0
    /\ connErr = NoConnErr
    /\ firstOk = 1
    /\ buildFailAt = 0
    /\ InitObject

Next ==
    \/ Execute
    \/ TableExists
    \/ Block
    \/ InsertFromDict
    \/ InsCreateSchema
    \/ InsCheckTable
    \/ InsReflect
    \/ MsEnter
    \/ MsBodyCall
    \/ BlockStmt
    \/ BlockEnd
    \/ BlockRaise
    \/ MsCommit
    \/ MsExcept
    \/ MsFinally
    \/ MsExit

Spec == Init /\ [][Next]_vars

\* line 252: attempts = 0; the inputs say which attempts fail
InitConn ==
    /\ cpc = "loop"
    /\ attempts = 0
    /\ engines = 0
    /\ engine = 0
    /\ sleeps = <<>>
    /\ warnings = 0
    /\ connErr = NoConnErr
    /\ firstOk \in 1..(MAX_RETRY_COUNT + 2)
    /\ buildFailAt \in 0..(MAX_RETRY_COUNT + 1)
    /\ InitObject

NextConn ==
    \/ ConnAttempt
    \/ ConnProbe
    \/ ConnSleep

SpecConn == InitConn /\ [][NextConn]_vars

\* The loop of lines 253-270 is sequential code: as long as each engine
\* construction, probe and sleep returns, its next step is taken.
SpecConnLive == SpecConn /\ WF_vars(NextConn)

\* The strings over the alphabet, up to the length n
Alphabet == {"s", "t", Dot}
StrsUpTo(n) == UNION {[1..k -> Alphabet] : k \in 0..n}

\* lines 166-167 and 322-330: a plain string is resolved, whatever the string
ResolveName ==
    /\ pc = "idle"
    /\ \E str \in StrsUpTo(MaxLen) :
         /\ op' = Call("_get_table_name_schema", "-", "str", str, "-")
         /\ tref' = Resolve("str", str)
    /\ UNCHANGED <<conn, db_type, schemas, store, work, pc, exc, orig, log, nstmt,
                   committed, preOp, preBlock, result, sessUnits, connVars, es>>

NextNames == ResolveName

SpecNames == Init /\ [][NextNames]_vars

\* ------------------------------------------------------------------
\* sidhulabs.elastic: get_elastic_client, insert, delete
\* ------------------------------------------------------------------

\* A Python value is [type, items]: the items of a list or a tuple, the one
\* value of anything else.  a and b stand for two documents, or two ids.
Elems == {"a", "b"}
NoneVal == "<None>"
PyNone == [type |-> "NoneType", items |-> <<>>]
SeqsUpTo(n) == UNION {[1..k -> Elems] : k \in 0..n}
PyValues ==
    {[type |-> t, items |-> q] : t \in {"list", "tuple"}, q \in SeqsUpTo(MaxItems)}
      \cup {[type |-> t, items |-> <<e>>] :
               t \in {"dict", "str", "int", "bool", "float"}, e \in Elems}
      \cup {PyNone}

\* isinstance(v, cls): bool is a subclass of int
IsInstance(v, cls) == v.type = cls \/ (v.type = "bool" /\ cls = "int")

\* a call to the client library
EsCall(api, items, consumed) == [api |-> api, items |-> items, consumed |-> consumed]
EsGives(e, calls, kind, items) ==
    [e EXCEPT !.calls = calls, !.ret = [kind |-> kind, items |-> items]]

\* client.py 47-48: assert ... is not None
IsNotNone_truthy(x) == x # NoneVal /\ x # ""
IsNotNone(x) == x # NoneVal

\* client.py 44-50: get_elastic_client(url, api_id, api_key, no_creds)
GetElasticClient ==
    /\ \E no_creds \in BOOLEAN, api_id \in {NoneVal, "", "id"}, api_key \in {NoneVal, "", "key"} :
         LET e == [EsIdle EXCEPT !.fn = "get_elastic_client", !.no_creds = no_creds,
                                 !.api_id = api_id, !.api_key = api_key]
         IN es' =
              IF no_creds
                THEN EsGives(e, <<EsCall("Elasticsearch", <<>>, 0)>>, "client", <<>>)
              ELSE IF ~IsNotNone(api_id)
                THEN EsGives(e, <<>>, "AssertionError", <<"ELASTIC_API_ID">>)
              ELSE IF ~IsNotNone(api_key)
                THEN EsGives(e, <<>>, "AssertionError", <<"ELASTIC_API_KEY">>)
              ELSE EsGives(e, <<EsCall("Elasticsearch", <<api_id, api_key>>, 0)>>,
                           "client", <<api_id, api_key>>)
    /\ UNCHANGED <<connVars, dbVars>>

\* documents.py 66 and 104: deque(parallel_bulk(client, actions, index), maxlen=0)
\* runs the generator to its end and keeps none of its results
ParallelBulk_lazy(actions) == EsCall("parallel_bulk", actions, 0)
ParallelBulk(actions) == EsCall("parallel_bulk", actions, Len(actions))

\* documents.py 65-72: insert(es_client, index, docs)
EsInsert ==
    /\ \E docs \in PyValues :
         LET e == [EsIdle EXCEPT !.fn = "insert", !.arg = docs]
         IN es' =
              IF IsInstance(docs, "list")
                THEN EsGives(e, <<ParallelBulk(docs.items)>>, "deque", <<>>)
              ELSE IF IsInstance(docs, "dict")
                THEN EsGives(e, <<EsCall("index", docs.items, 0)>>, "response", docs.items)
              ELSE EsGives(e, <<>>, "ValueError", <<>>)
    /\ UNCHANGED <<connVars, dbVars>>

\* documents.py 103: the delete actions of the ids
DeleteActions_reversed(ids) ==
    [i \in 1..Len(ids) |-> [op_type |-> "delete", id |-> ids[Len(ids) + 1 - i]]]
DeleteActions(ids) ==
    [i \in 1..Len(ids) |-> [op_type |-> "delete", id |-> ids[i]]]

\* documents.py 102-110: delete(es_client, index, doc_ids)
EsDelete ==
    /\ \E doc_ids \in PyValues :
         LET e == [EsIdle EXCEPT !.fn = "delete", !.arg = doc_ids]
         IN es' =
              IF IsInstance(doc_ids, "list")
                THEN EsGives(e, <<ParallelBulk(DeleteActions(doc_ids.items))>>, "deque", <<>>)
              ELSE IF IsInstance(doc_ids, "str") \/ IsInstance(doc_ids, "int")
                THEN EsGives(e, <<EsCall("delete", doc_ids.items, 0)>>, "response", doc_ids.items)
              ELSE EsGives(e, <<>>, "ValueError", <<>>)
    /\ UNCHANGED <<connVars, dbVars>>

NextEs ==
    \/ GetElasticClient
    \/ EsInsert
    \/ EsDelete

SpecEs == Init /\ [][NextEs]_vars

\* ------------------------------------------------------------------
\* Properties
\* ------------------------------------------------------------------

Has(l, x) == \E i \in 1..Len(l) : l[i] = x
Count(l, x) == Cardinality({i \in 1..Len(l) : l[i] = x})
\* every x of l comes before every y of l
Before(l, x, y) == \A i, j \in 1..Len(l) : (l[i] = x /\ l[j] = y) => i < j
Last(l) == l[Len(l)]

\* the call in progress, or the last call, entered a managed-session block
BlockEntered == Has(log, "ms.enter")
\* ... and the block is over
BlockEnded == BlockEntered /\ pc \in {"ms_exit", "idle"}

\* C1: a managed-session block is committed if and only if nothing failed in
\* its scope (pragmas, body, commit); otherwise rollback is called; and no
\* block ends both committed and rolled back.
C1_CommitIffNoFailure ==
    BlockEnded =>
        /\ committed <=> orig = NoExc
        /\ committed => Count(log, "s.commit") = 1
        /\ ~committed => Has(log, "s.rollback")
        /\ ~(committed /\ Has(log, "s.rollback"))

\* a block whose commit raised has ended, rolled back
C1_Witness ==
    /\ BlockEnded
    /\ orig.at = "commit"
    /\ ~committed
    /\ Has(log, "s.rollback")

\* C2: on every path through a block session.close is called exactly once,
\* as the last session operation, right after the commit or the rollback;
\* before the end of the block it has not been called.
C2_CloseOnceAndLast ==
    /\ BlockEnded =>
         /\ Count(log, "s.close") = 1
         /\ Last(log) = "s.close"
         /\ log[Len(log) - 1] \in {"s.commit", "s.rollback"}
         /\ Count(log, "s.commit") + Count(log, "s.rollback") \in {1, 2}
    /\ (BlockEntered /\ ~BlockEnded /\ pc # "ms_finally") => ~Has(log, "s.close")

\* a block whose commit raised: commit, rollback, close, in this order
C2_Witness ==
    /\ BlockEnded
    /\ Len(log) >= 3
    /\ SubSeq(log, Len(log) - 2, Len(log)) = <<"s.commit", "s.rollback", "s.close">>

\* C3: an exception raised inside a block is followed by a rollback and then
\* reaches the caller wrapped, the original exception its cause; the block
\* never returns normally.
C3_RollbackThenWrappedRaise ==
    (BlockEntered /\ orig # NoExc) =>
        /\ pc # "ms_exit"
        /\ pc \in {"ms_finally", "idle"} => Has(log, "s.rollback")
        /\ pc = "idle" =>
             /\ result.status = "raised"
             /\ result.exc = [orig EXCEPT !.wrapped = TRUE]
             /\ Before(log, "s.rollback", "s.close")

\* the body of a caller's block raised and the caller got the wrapped exception
C3_Witness ==
    /\ pc = "idle"
    /\ BlockEntered
    /\ orig = Raised("BodyError", "body")
    /\ result.status = "raised"
    /\ result.exc.wrapped

\* C4: a block whose body raises leaves the store as it was when the block
\* started, whatever calls came before and whatever the body wrote, and the
\* session is closed.
C4_BodyRaiseLeavesStore ==
    (BlockEnded /\ orig.at = "body") =>
        /\ store = preBlock
        /\ work = preBlock
        /\ Last(log) = "s.close"

\* a caller's block that wrote to a store with tables in it and then raised
C4_Witness ==
    /\ BlockEnded
    /\ op.name = "block"
    /\ orig = Raised("BodyError", "body")
    /\ nstmt >= 1
    /\ store.tables # {}
    /\ store = preBlock

\* the engine is built on every attempt up to the given one
BuildsUpTo(n) == buildFailAt = 0 \/ buildFailAt > n

\* C5: when the probe fails and then succeeds on attempt n <= 15, the
\* connector returns the engine of attempt n and raises nothing.
C5_TransientThenSuccess ==
    (ConnDone /\ firstOk <= MAX_RETRY_COUNT /\ BuildsUpTo(firstOk)) =>
        /\ cpc = "returned"
        /\ attempts = firstOk
        /\ engine = firstOk
        /\ connErr = NoConnErr

\* the probe succeeded on the 15th attempt, after 14 failures
C5_Witness ==
    /\ cpc = "returned"
    /\ firstOk = MAX_RETRY_COUNT
    /\ attempts = MAX_RETRY_COUNT
    /\ warnings = MAX_RETRY_COUNT - 1

\* C6: when the probe fails on every attempt the connector stops at the 15th
\* failure, without a 16th attempt and without a sleep after the last failure,
\* and raises the error of the 15th attempt as it is.
C6_PersistentFailure ==
    /\ attempts <= MAX_RETRY_COUNT
    /\ (ConnDone /\ firstOk > MAX_RETRY_COUNT /\ BuildsUpTo(MAX_RETRY_COUNT)) =>
        /\ cpc = "raised"
        /\ attempts = MAX_RETRY_COUNT
        /\ engines = MAX_RETRY_COUNT
        /\ Len(sleeps) = MAX_RETRY_COUNT - 1
        /\ connErr = ConnRaised("inspect", MAX_RETRY_COUNT)

\* every probe failed and the connector raised
C6_Witness ==
    /\ cpc = "raised"
    /\ firstOk > MAX_RETRY_COUNT
    /\ connErr.src = "inspect"
    /\ Len(sleeps) = MAX_RETRY_COUNT - 1

\* C7: the connector raises only after all 15 attempts were made, whichever
\* step of an attempt (create_engine or the probe) failed.
C7_RaisesOnlyAfterBudget ==
    cpc = "raised" => attempts = MAX_RETRY_COUNT

\* the target of the last insert_from_dict existed when the call started
TargetExisted == TableExistsIn(preOp, tref.name, tref.schema)
InsertOver == pc = "idle" /\ op.name = "insert_from_dict"

\* C8: insert_from_dict with a plain string naming a table that does not
\* exist raises ValueError; no table is created, no managed session is opened
\* and no row is inserted.
C8_MissingTableValueError ==
    (InsertOver /\ op.tkind = "str" /\ ~TargetExisted) =>
        /\ result.status = "raised"
        /\ result.exc = Raised("ValueError", "table_exists")
        /\ store = preOp
        /\ ~BlockEntered
        /\ ~Has(log, "s.execute")
        /\ ~Has(log, "e.create_all")

\* C9: for a declarative model whose table is absent when insert_from_dict is
\* called, table_exists is true once the call has returned; the declared
\* tables were created before the insert ran and the row can be read.
C9_ModelCreatesTable ==
    (InsertOver /\ op.tkind = "model" /\ result.status = "returned"
       /\ ~TableExistsIn(preOp, op.tstr, None)) =>
        /\ TableExistsIn(store, op.tstr, None)
        /\ Has(log, "e.create_all") /\ Has(log, "s.execute")
        /\ Before(log, "e.create_all", "s.execute")
        /\ Before(log, "e.create_all", "e.reflect")
        /\ store.rows[Ref(None, op.tstr)] = <<<<1, op.val>>>>
        /\ work = store

\* insert_from_dict(model, data) returned, the table having been absent
C9_Witness ==
    /\ InsertOver
    /\ op.tkind = "model"
    /\ op.tstr = M
    /\ result.status = "returned"
    /\ ~TableExistsIn(preOp, M, None)
    /\ TableExistsIn(store, M, None)
    /\ store.rows[Ref(None, M)] = <<<<1, "b">>>>

\* the last call was a select that returned
SelectOver == pc = "idle" /\ op.name = "execute" /\ IsSelect(Lower(op.kw))

\* C10: a successful insert_from_dict on an existing table adds exactly one
\* row, built from the mapping and committed, and a select that follows on the
\* same object returns it: on a fresh table, one insert of name a makes the
\* select return exactly the row (1, a).
C10_InsertAddsOneRow ==
    /\ (InsertOver /\ result.status = "returned" /\ TargetExisted) =>
         /\ committed
         /\ store.tables = preOp.tables
         /\ store.rows[tref] = Append(preOp.rows[tref], <<Len(preOp.rows[tref]) + 1, op.val>>)
         /\ \A r \in AllRefs \ {tref} : store.rows[r] = preOp.rows[r]
         /\ work = store
    /\ (SelectOver /\ result.status = "returned") =>
         result.rows = store.rows[Ref(None, op.tstr)]

\* the scenario: the select after one insert of a into the fresh table
C10_Witness ==
    /\ SelectOver
    /\ op.tstr = T
    /\ result.status = "returned"
    /\ result.rows = <<<<1, "a">>>>
    /\ store.rows[Ref(None, T)] = <<<<1, "a">>>>

\* the insert of the scenario has returned
C10_WitnessInsert ==
    /\ InsertOver
    /\ op.tkind = "str"
    /\ result.status = "returned"
    /\ preOp.rows[tref] = <<>>
    /\ store.rows[tref] = <<<<1, "a">>>>

\* the positions of the dots of a string
Dots(str) == {i \in 1..Len(str) : str[i] = Dot}

\* C11: a plain string with exactly one dot resolves to (the text before the
\* dot, the text after it); with no dot, or with more than one, it resolves
\* to (no schema, the whole string).
C11_NameResolution ==
    op.name = "_get_table_name_schema" =>
        IF Cardinality(Dots(op.tstr)) = 1
          THEN LET i == CHOOSE i \in Dots(op.tstr) : TRUE
               IN tref = Ref(SubSeq(op.tstr, 1, i - 1), SubSeq(op.tstr, i + 1, Len(op.tstr)))
          ELSE tref = Ref(None, op.tstr)

\* a string with two dots was resolved, unsplit
C11_Witness ==
    /\ op.name = "_get_table_name_schema"
    /\ op.tstr = <<"s", Dot, "t", Dot>>
    /\ tref = Ref(None, <<"s", Dot, "t", Dot>>)

\* C12: on the embedded-file variant, a SqliteConn object included, every
\* managed session runs both pragmas at its start, before the caller's block
\* (the second is not reached when the first raises).
C12_PragmasOnSqlite ==
    (DialectOf(conn) = SQLITE /\ BlockEntered) =>
        /\ Has(log, "s.pragma_fk")
        /\ Has(log, "s.pragma_csl") \/ orig.at = "pragma"
        /\ Has(log, "s.execute") => Has(log, "s.pragma_csl")
        /\ Before(log, "s.pragma_fk", "s.execute")
        /\ Before(log, "s.pragma_csl", "s.execute")

\* a step that adds the entry x to the log of the call
Logs(x) == Has(log', x) /\ ~Has(log, x)

\* C13: insert_from_dict looks up or creates a schema only when the resolved
\* schema is non-empty and the store is not the embedded-file variant, and
\* creates it only if it is absent; on the embedded-file variant, a SqliteConn
\* object included, no schema lookup or creation is issued.
C13_SchemaOnlyWhenSupported ==
    [][/\ Logs("e.get_schema_names") =>
             (Truthy(tref.schema) /\ DialectOf(conn) # SQLITE)
       /\ Logs("e.create_schema") =>
             (Truthy(tref.schema) /\ DialectOf(conn) # SQLITE /\ tref.schema \notin schemas)
      ]_vars

\* the last call, an execute or an insert_from_dict, has run a statement
StatementRun ==
    /\ pc = "idle"
    /\ op.name \in {"execute", "insert_from_dict"}
    /\ Has(log, "s.execute")

\* the statement of the call ran inside the managed-session wrapper: the call
\* ends with a commit or a rollback, and then the close
InManagedSession ==
    /\ BlockEntered
    /\ Before(log, "ms.enter", "s.execute")
    /\ Len(log) >= 2
    /\ Last(log) = "s.close"
    /\ log[Len(log) - 1] \in {"s.commit", "s.rollback"}

\* C14 as claimed: every statement run through execute or insert_from_dict,
\* whatever its first keyword, is run inside the managed-session wrapper.
C14_AllInManagedSession ==
    StatementRun => InManagedSession

\* C14 as amended: every statement of insert_from_dict, and every statement
\* of execute whose first word is not select in any letter case, is run
\* inside the managed-session wrapper; a select given to execute runs on the
\* session directly, with no commit, rollback or close.
C14_NonSelectInManagedSession ==
    StatementRun =>
        IF op.name = "execute" /\ Lower(op.kw) = "select"
          THEN log = <<"s.execute">>
          ELSE InManagedSession

\* a select given to execute has returned: one session.execute and no more
C14_Witness ==
    /\ StatementRun
    /\ op.name = "execute"
    /\ op.kw = "SELECT"
    /\ result.status = "returned"
    /\ log = <<"s.execute">>

\* a statement other than a select has run in a managed session
C14_WitnessManaged ==
    /\ StatementRun
    /\ op.name = "execute"
    /\ op.kw = "INSERT"
    /\ InManagedSession

\* C15: get_elastic_client with no_creds true makes one unauthenticated
\* client and raises nothing whatever api_id and api_key are; with no_creds
\* false it raises the AssertionError exactly when api_id or api_key is None,
\* and otherwise makes one client authenticated by (api_id, api_key).
C15_ClientCredentials ==
    es.fn = "get_elastic_client" =>
        /\ es.no_creds =>
             /\ es.ret = [kind |-> "client", items |-> <<>>]
             /\ es.calls = <<EsCall("Elasticsearch", <<>>, 0)>>
        /\ ~es.no_creds =>
             /\ es.ret.kind = "AssertionError" <=> (es.api_id = NoneVal \/ es.api_key = NoneVal)
             /\ es.ret.kind = "AssertionError" => es.calls = <<>>
             /\ es.ret.kind # "AssertionError" =>
                  /\ es.ret = [kind |-> "client", items |-> <<es.api_id, es.api_key>>]
                  /\ es.calls = <<EsCall("Elasticsearch", <<es.api_id, es.api_key>>, 0)>>

C15_Witness ==
    /\ es.fn = "get_elastic_client" /\ ~es.no_creds
    /\ es.api_id = "" /\ es.api_key = "key"
    /\ es.ret.kind = "client"

C15_WitnessRaise ==
    /\ es.fn = "get_elastic_client" /\ ~es.no_creds
    /\ es.api_id = "id" /\ es.api_key = NoneVal
    /\ es.ret = [kind |-> "AssertionError", items |-> <<"ELASTIC_API_KEY">>]

C15_WitnessNoCreds ==
    /\ es.fn = "get_elastic_client" /\ es.no_creds
    /\ es.api_id = NoneVal /\ es.api_key = NoneVal
    /\ es.ret.kind = "client"

\* The outcome of insert or delete when it takes the bulk, the single or the
\* rejecting branch.
EsBulkOf(actions) ==
    /\ es.calls = <<EsCall("parallel_bulk", actions, Len(actions))>>
    /\ es.ret = [kind |-> "deque", items |-> <<>>]
EsSingleOf(api) ==
    /\ es.calls = <<EsCall(api, es.arg.items, 0)>>
    /\ es.ret.kind = "response"
EsRejected ==
    /\ es.calls = <<>>
    /\ es.ret.kind = "ValueError"

\* a collection of items, as opposed to one item
IsCollection(v) == v.type \in {"list", "tuple"}

\* C16 as stated: any collection of documents is inserted by one bulk run.
C16_CollectionBulkInsert ==
    es.fn = "insert" =>
        IF IsCollection(es.arg) THEN EsBulkOf(es.arg.items)
        ELSE IF es.arg.type = "dict" THEN EsSingleOf("index")
        ELSE EsRejected

\* C16: insert of a list of documents makes exactly one parallel_bulk call
\* over these documents, run to its end, and returns an empty deque; insert of
\* a dict makes exactly one index call with it and no bulk call; any other
\* value, a tuple of documents included, raises ValueError and makes no call.
C16_ListBulkInsert ==
    es.fn = "insert" =>
        IF es.arg.type = "list" THEN EsBulkOf(es.arg.items)
        ELSE IF es.arg.type = "dict" THEN EsSingleOf("index")
        ELSE EsRejected

C16_Witness ==
    /\ es.fn = "insert" /\ es.arg = [type |-> "list", items |-> <<"a", "b", "a">>]
    /\ es.calls[1].consumed = 3 /\ es.ret.items = <<>>

C16_WitnessTuple ==
    /\ es.fn = "insert" /\ es.arg = [type |-> "tuple", items |-> <<"a", "b">>]
    /\ es.ret.kind = "ValueError"

C16_WitnessSingle ==
    /\ es.fn = "insert" /\ es.arg = [type |-> "dict", items |-> <<"a">>]
    /\ es.calls = <<EsCall("index", <<"a">>, 0)>>

\* the delete actions expected for a sequence of ids: one per id, in order
ExpectedDeletes(ids) ==
    /\ Len(es.calls) = 1
    /\ Len(es.calls[1].items) = Len(ids)
    /\ \A i \in 1..Len(ids) :
         es.calls[1].items[i] = [op_type |-> "delete", id |-> ids[i]]
    /\ EsBulkOf(es.calls[1].items)

\* C17 as stated: any collection of ids is deleted by one bulk run.
C17_CollectionBulkDelete ==
    es.fn = "delete" =>
        IF IsCollection(es.arg) THEN ExpectedDeletes(es.arg.items)
        ELSE IF es.arg.type \in {"str", "int", "bool"} THEN EsSingleOf("delete")
        ELSE EsRejected

\* C17: delete of one id that is a str or an int (a bool included) makes
\* exactly one delete call with it; delete of a list of ids makes one
\* parallel_bulk run with exactly one delete action per id, in the order of
\* the list; any other value, a tuple of ids included, raises ValueError and
\* makes no call.
C17_ListBulkDelete ==
    es.fn = "delete" =>
        IF es.arg.type = "list" THEN ExpectedDeletes(es.arg.items)
        ELSE IF es.arg.type \in {"str", "int", "bool"} THEN EsSingleOf("delete")
        ELSE EsRejected

C17_Witness ==
    /\ es.fn = "delete" /\ es.arg = [type |-> "list", items |-> <<"a", "b">>]
    /\ es.calls[1].items = <<[op_type |-> "delete", id |-> "a"], [op_type |-> "delete", id |-> "b"]>>

C17_WitnessTuple ==
    /\ es.fn = "delete" /\ es.arg = [type |-> "tuple", items |-> <<"a", "b">>]
    /\ es.ret.kind = "ValueError"

C17_WitnessSingle ==
    /\ es.fn = "delete" /\ es.arg = [type |-> "int", items |-> <<"a">>]
    /\ es.calls = <<EsCall("delete", <<"a">>, 0)>>

\* C18: the attempt counter is 1 on the first attempt; after the failed probe
\* of attempt k (1 <= k <= 14) one warning is logged and one sleep of
\* 0.1 * (2^k - 1) seconds happens before attempt k + 1, so the delays are
\* 0.1, 0.3, 0.7, ... and strictly increasing; a successful attempt logs no
\* warning and sleeps not at all.  Delays are in tenths of a second.
C18_BackoffSchedule ==
    /\ Len(sleeps) <= MAX_RETRY_COUNT - 1
    /\ Len(sleeps) >= 1 => sleeps[1] = 1
    /\ \A k \in 1..(Len(sleeps) - 1) :
         /\ sleeps[k + 1] = 2 * sleeps[k] + 1
         /\ sleeps[k] < sleeps[k + 1]
    /\ cpc = "loop" => (warnings = attempts /\ Len(sleeps) = attempts)
    /\ cpc = "probe" =>
         (attempts >= 1 /\ warnings = attempts - 1 /\ Len(sleeps) = attempts - 1)
    /\ cpc = "sleep" =>
         (attempts <= MAX_RETRY_COUNT - 1 /\ warnings = attempts /\ Len(sleeps) = attempts - 1)
    /\ cpc = "returned" => (warnings = attempts - 1 /\ Len(sleeps) = attempts - 1)

\* the 15th attempt is reached after 14 warnings and 14 sleeps, the last of
\* 0.1 * (2^14 - 1) seconds
C18_Witness ==
    /\ cpc = "probe"
    /\ attempts = MAX_RETRY_COUNT
    /\ warnings = MAX_RETRY_COUNT - 1
    /\ Len(sleeps) = MAX_RETRY_COUNT - 1
    /\ sleeps[3] = 7
    /\ sleeps[MAX_RETRY_COUNT - 1] = 16383

\* C19: each unit of work has a session handle of its own, made at block
\* entry and ended at block exit: the one session made by __init__ is used by
\* at most one unit of work (managed-session block or direct select).
C19_OneUnitPerSession == sessUnits <= 1

\* the last call was execute or insert_from_dict and is over
CallOver == pc = "idle" /\ op.name \in {"execute", "insert_from_dict"}

\* an exception raised in the call reached its caller, as it was or wrapped
\* by the managed session
RaisedSurfaces ==
    (CallOver /\ orig # NoExc) =>
        /\ result.status = "raised"
        /\ result.exc \in {orig, Wrap(orig)}

\* no step of execute or insert_from_dict is run twice
NothingRetried ==
    op.name \in {"execute", "insert_from_dict"} =>
        \A x \in {"e.get_schema_names", "e.create_schema", "e.get_table_names",
                  "e.create_all", "e.reflect", "ms.enter", "s.execute",
                  "s.commit", "s.rollback", "s.close"} : Count(log, x) <= 1

\* C20 as stated: every failure surfaces, none is swallowed.
C20_AllFailuresSurface ==
    /\ RaisedSurfaces
    /\ ~Has(log, "w.schema_name")
    /\ NothingRetried

\* C20: every exception raised during execute or insert_from_dict reaches the
\* caller, as raised or wrapped in an Exception by the managed session, but
\* for one: a ProgrammingError of create_all whose text has "schema name" in
\* it is swallowed by _create_tables with a warning, never reaches the caller,
\* and insert_from_dict goes on to reflect the table as if the declared tables
\* had been created.  No step is run twice.
C20_SurfaceButSchemaName ==
    /\ RaisedSurfaces
    /\ NothingRetried
    /\ result.exc.at # "create_all_schema_name"
    /\ orig.at # "create_all_schema_name"
    /\ Has(log, "w.schema_name") =>
         /\ op.name = "insert_from_dict" /\ op.tkind = "model"
         /\ Before(log, "e.create_all", "w.schema_name")
         /\ \/ pc = "ins_reflect"
            \/ Has(log, "e.reflect") /\ Before(log, "w.schema_name", "e.reflect")

\* create_all failed on a missing schema after it had created the target:
\* the failure was swallowed and the insert went through
C20_Witness ==
    /\ CallOver /\ op.name = "insert_from_dict" /\ op.tkind = "model"
    /\ Has(log, "w.schema_name")
    /\ result.status = "returned"
    /\ Has(log, "s.commit")
    /\ store.tables # preOp.tables
    /\ Declared \ store.tables # {}

\* create_all failed on a missing schema before it had created the target:
\* the caller gets the error of the reflection, not that of create_all
C20_WitnessReflect ==
    /\ CallOver /\ Has(log, "w.schema_name")
    /\ result.status = "raised"
    /\ result.exc = Raised("NoSuchTableError", "reflect")

\* what holds of the connector at every moment: at most 15 attempts and 14
\* sleeps, one engine built per attempt, and an end that is either the return
\* of the engine of the first successful attempt or a raise
ConnWithinBudget ==
    /\ attempts <= MAX_RETRY_COUNT
    /\ Len(sleeps) <= MAX_RETRY_COUNT - 1
    /\ engines <= attempts
    /\ cpc \in {"probe", "sleep", "returned"} => engines = attempts
    /\ cpc = "returned" =>
         /\ attempts = firstOk
         /\ engine = engines
         /\ connErr = NoConnErr
    /\ cpc = "raised" =>
         /\ engine = 0
         /\ connErr # NoConnErr
         /\ connErr.attempt = attempts

\* C21: the retrying connector always terminates when each engine
\* construction, probe and sleep returns: for every first successful attempt
\* (or none) it makes at most 15 attempts and 14 sleeps, builds a new engine
\* on each attempt, and ends by returning the engine of the first successful
\* attempt or by raising.
C21_ConnectorTerminates ==
    /\ []ConnWithinBudget
    /\ <>[]ConnDone

\* six probes failed, the seventh succeeded: the seventh engine is returned
C21_Witness ==
    /\ cpc = "returned"
    /\ firstOk = 7
    /\ attempts = 7
    /\ engines = 7
    /\ engine = 7
    /\ Len(sleeps) = 6

====
